---- MODULE Spec2Model ----
(***************************************************************************)
(* Rover firmware (code/rover/src/main.rs, code/rover_lib/src/lib.rs).     *)
(*                                                                         *)
(* Three embassy tasks on one cooperative executor share one robot behind  *)
(* an async mutex:                                                         *)
(*   main                 reads the UART, COBS-decodes frames, deserialises*)
(*                        them, merges them into p/th/tu and drives;       *)
(*   safety_timer_generic races a 500 ms timer against SIGNAL and puts the *)
(*                        robot in neutral when the timer wins;            *)
(*   generic_rover_task   drives forward while the button is low.          *)
(*                                                                         *)
(* A task runs from one .await to the next without being interrupted by    *)
(* another task (variable running); interrupts (UART bytes, button level)  *)
(* and the passing of time are the environment.  A panic (unwrap/expect on *)
(* an Err) stops the whole executor: halted.                               *)
(***************************************************************************)
EXTENDS Integers, Sequences, FiniteSets, TLC

(***************************************************************************)
(* Bounds of the model.                                                    *)
(***************************************************************************)
\* Timer::after_millis(500) counted in ticks: one tick is 500/TimeoutTicks ms.
TimeoutTicks == 3
\* Length of decode_out ([0u8; RX_SIZE], RX_SIZE = 128 in the source), scaled.
RX_SIZE == 5
\* Frames the sender puts on the serial line in one run.
MaxFrames == 2
\* Err results (actuator calls, serial reads) injected in one run.
MaxFaults == 1
\* Button level changes in one run.
MaxEdges == 2

(***************************************************************************)
(* The wire format.  A frame is a COBS-encoded JSON object.  The JSON text *)
(* is modelled token by token: one byte stands for one token, the commas   *)
(* and colons are implied.  {"p":0.5} is <<OBJ, KP, N1>>.                  *)
(***************************************************************************)
KP  == 1    \* the key "p"
KTH == 2    \* the key "th"
KTU == 3    \* the key "tu"
N0  == 4    \* the number 0.0
N1  == 5    \* the number 0.5
N2  == 6    \* the number 1.57
STR == 7    \* a string value, e.g. "not-a-number"
OBJ == 8    \* the braces of the object

None == -1

Keys == {KP, KTH, KTU}
Numbers == {N0, N1, N2}
NumVal(b) == b - N0

\* RxMessage { p: Option<..>, th: Option<..>, tu: Option<..> }
NoMessage == [p |-> None, th |-> None, tu |-> None]

Field(key) == IF key = KP THEN "p" ELSE IF key = KTH THEN "th" ELSE "tu"

RECURSIVE ParseFields(_, _)
ParseFields(s, acc) ==
    IF s = <<>> THEN [ok |-> TRUE, msg |-> acc]
    ELSE IF Len(s) < 2 THEN [ok |-> FALSE, msg |-> NoMessage]
    ELSE IF s[1] \notin Keys THEN [ok |-> FALSE, msg |-> NoMessage]
    ELSE IF s[2] \notin Numbers THEN [ok |-> FALSE, msg |-> NoMessage]
    ELSE IF acc[Field(s[1])] # None THEN [ok |-> FALSE, msg |-> NoMessage]
    ELSE ParseFields(SubSeq(s, 3, Len(s)),
                     [acc EXCEPT ![Field(s[1])] = NumVal(s[2])])

\* A deserialiser that takes the default message for a payload it cannot
\* read.
DeserializeOrDefault(payload) ==
    IF payload = <<>> \/ payload[1] # OBJ
        THEN [ok |-> TRUE, msg |-> NoMessage]
        ELSE LET d == ParseFields(Tail(payload), NoMessage)
             IN  IF d.ok THEN d ELSE [ok |-> TRUE, msg |-> NoMessage]

\* serde_json::from_slice::<RxMessage>(packet_raw)
Deserialize(payload) ==
    IF payload = <<>> \/ payload[1] # OBJ
        THEN [ok |-> FALSE, msg |-> NoMessage]
        ELSE ParseFields(Tail(payload), NoMessage)

(***************************************************************************)
(* CobsDecoder: the state machine fed one byte at a time, and push over a  *)
(* chunk.  dest is decode_out[..dest_idx].                                 *)
(***************************************************************************)
NewDecoder == [st |-> "Idle", n |-> 0, dest |-> <<>>]

\* DecoderState::feed: the result and the next state
StateFeed(d, b) ==
    IF d.st = "Idle" THEN
        IF b = 0 THEN [res |-> "NoData", st |-> "Idle", n |-> 0, out |-> 0]
        ELSE IF b = 255 THEN [res |-> "NoData", st |-> "GrabChain", n |-> 254, out |-> 0]
        ELSE [res |-> "NoData", st |-> "Grab", n |-> b - 1, out |-> 0]
    ELSE IF d.st = "Grab" THEN
        IF d.n = 0 THEN
            IF b = 0 THEN [res |-> "DataComplete", st |-> "Idle", n |-> 0, out |-> 0]
            ELSE IF b = 255 THEN [res |-> "DataContinue", st |-> "GrabChain", n |-> 254, out |-> 0]
            ELSE [res |-> "DataContinue", st |-> "Grab", n |-> b - 1, out |-> 0]
        ELSE
            IF b = 0 THEN [res |-> "Err", st |-> "Idle", n |-> 0, out |-> 0]
            ELSE [res |-> "DataContinue", st |-> "Grab", n |-> d.n - 1, out |-> b]
    ELSE
        IF d.n = 0 THEN
            IF b = 0 THEN [res |-> "DataComplete", st |-> "Idle", n |-> 0, out |-> 0]
            ELSE IF b = 255 THEN [res |-> "NoData", st |-> "GrabChain", n |-> 254, out |-> 0]
            ELSE [res |-> "NoData", st |-> "Grab", n |-> b - 1, out |-> 0]
        ELSE
            IF b = 0 THEN [res |-> "Err", st |-> "Idle", n |-> 0, out |-> 0]
            ELSE [res |-> "DataContinue", st |-> "GrabChain", n |-> d.n - 1, out |-> b]

\* CobsDecoder::feed: Ok(None), Ok(Some(dest_idx)) or Err; a byte that does
\* not fit in dest is an Err.
Feed(d, b) ==
    LET r == StateFeed(d, b) IN
    IF r.res = "Err" THEN
        [res |-> "Err", dec |-> [st |-> r.st, n |-> r.n, dest |-> d.dest]]
    ELSE IF r.res = "NoData" THEN
        [res |-> "None", dec |-> [st |-> r.st, n |-> r.n, dest |-> d.dest]]
    ELSE IF r.res = "DataContinue" THEN
        IF Len(d.dest) >= RX_SIZE
            THEN [res |-> "Err", dec |-> [st |-> r.st, n |-> r.n, dest |-> d.dest]]
            ELSE [res |-> "None",
                  dec |-> [st |-> r.st, n |-> r.n, dest |-> Append(d.dest, r.out)]]
    ELSE [res |-> "Some", dec |-> [st |-> r.st, n |-> r.n, dest |-> d.dest]]

\* CobsDecoder::push(buf): feeds the bytes in order and stops at the first
\* completed frame (Ok(Some((n, m))): n decoded bytes, m bytes of buf used)
\* or at the first error; Ok(None) when buf is used up.
RECURSIVE PushFrom(_, _, _)
PushFrom(d, buf, i) ==
    IF i > Len(buf) THEN [res |-> "None", n |-> 0, m |-> Len(buf), dec |-> d]
    ELSE LET r == Feed(d, buf[i]) IN
         IF r.res = "Some"
             THEN [res |-> "Some", n |-> Len(r.dec.dest), m |-> i, dec |-> r.dec]
         ELSE IF r.res = "Err"
             THEN [res |-> "Err", n |-> 0, m |-> i - 1, dec |-> r.dec]
         ELSE PushFrom(r.dec, buf, i + 1)

Push(d, buf) == PushFrom(d, buf, 1)

(***************************************************************************)
(* The sender: it serialises a command and COBS-encodes it, or puts a      *)
(* damaged frame on the line.                                              *)
(***************************************************************************)
RECURSIVE FirstZero(_, _)
FirstZero(s, i) == IF i > Len(s) \/ s[i] = 0 THEN i ELSE FirstZero(s, i + 1)

RECURSIVE CobsEncode(_)
CobsEncode(s) ==
    LET k == FirstZero(s, 1) IN
    <<k>> \o SubSeq(s, 1, k - 1)
          \o (IF k <= Len(s) THEN CobsEncode(SubSeq(s, k + 1, Len(s))) ELSE <<>>)

Msg(a, b, c) == [p |-> a, th |-> b, tu |-> c]

ValidFrame(payload, m) ==
    [bytes |-> CobsEncode(payload) \o <<0>>, kind |-> "valid", msg |-> m]
BadPayloadFrame(payload) ==
    [bytes |-> CobsEncode(payload) \o <<0>>, kind |-> "badpayload", msg |-> NoMessage]
CorruptFrame(raw) == [bytes |-> raw, kind |-> "corrupt", msg |-> NoMessage]

\* {"p":0.5}  {"th":1.57}  {"tu":0.5}  {"p":0.0}  {}  {"p":0.5,"th":1.57}
ValidFrames ==
    { ValidFrame(<<OBJ, KP, N1>>, Msg(1, None, None)),
      ValidFrame(<<OBJ, KTH, N2>>, Msg(None, 2, None)),
      ValidFrame(<<OBJ, KTU, N1>>, Msg(None, None, 1)),
      ValidFrame(<<OBJ, KP, N0>>, Msg(0, None, None)),
      ValidFrame(<<OBJ>>, NoMessage),
      ValidFrame(<<OBJ, KP, N1, KTH, N2>>, Msg(1, 2, None)) }

\* {"p":"not-a-number"}  {"p"  a NUL inside the object  an empty payload
BadPayloadFrames ==
    { BadPayloadFrame(<<OBJ, KP, STR>>),
      BadPayloadFrame(<<OBJ, KP>>),
      BadPayloadFrame(<<OBJ, 0, KP>>),
      BadPayloadFrame(<<>>) }

\* malformed stuffing: the code byte announces two data bytes and the
\* delimiter comes after one; over capacity: RX_SIZE + 1 data bytes.
BadStuffing == <<3, OBJ, 0>>
OverCapacity == <<RX_SIZE + 2>> \o [i \in 1..(RX_SIZE + 1) |-> N1] \o <<0>>
CorruptFrames == { CorruptFrame(BadStuffing), CorruptFrame(OverCapacity) }

AllFrames == ValidFrames \cup BadPayloadFrames \cup CorruptFrames

(***************************************************************************)
(* rover_lib: MyMotor, one PWM output and two direction outputs.  A call   *)
(* runs its sub-operations in order; each is a fallible HAL call, and the  *)
(* ? after it returns the first Err.                                       *)
(***************************************************************************)
PinStates == {"High", "Low"}
Directions == {"Clockwise", "CounterClockwise"}

\* impl Opposite for PinState
Opposite(s) == IF s = "High" THEN "Low" ELSE "High"

\* u8::MAX
U8_MAX == 255
\* power: u8, some values of it
Powers == {0, 1, 128, U8_MAX}

\* set_duty_cycle_fraction(num, denom) and set_duty_cycle_fully_off()
DutyFraction(num, denom) == [num |-> num, denom |-> denom]
FullyOff == [num |-> 0, denom |-> 1]
ZeroDuty(d) == d.num = 0

\* MyMotor::new
MyMotorNew(pwm, dir_0, dir_1, dir_active) ==
    [built |-> TRUE, pwm |-> pwm, dir_0 |-> dir_0, dir_1 |-> dir_1,
     dir_active |-> dir_active, dir_passive |-> Opposite(dir_active)]

\* no motor constructed yet
NoMotor ==
    [built |-> FALSE, pwm |-> FullyOff, dir_0 |-> "Low", dir_1 |-> "Low",
     dir_active |-> "High", dir_passive |-> "Low"]

\* One sub-operation: a write of val to the output out.
Step(out, val) == [out |-> out, val |-> val]
SetOutput(m, st) == [m EXCEPT ![st.out] = st.val]

\* steps[k], steps[k+1], ... each followed by ?: the sub-operation number
\* fail (none when 0) returns Err, having written its output (wrote) or not,
\* and ends the call.  trace is the sub-operations attempted so far.
RECURSIVE RunSteps(_, _, _, _, _, _)
RunSteps(m, steps, k, fail, wrote, trace) ==
    IF k > Len(steps) THEN [ok |-> TRUE, m |-> m, trace |-> trace]
    ELSE IF k = fail
        THEN [ok |-> FALSE,
              m |-> IF wrote THEN SetOutput(m, steps[k]) ELSE m,
              trace |-> Append(trace, steps[k].out)]
    ELSE RunSteps(SetOutput(m, steps[k]), steps, k + 1, fail, wrote,
                  Append(trace, steps[k].out))

\* A drive that sets the duty cycle before the direction outputs.
MyMotorDrivePwmFirst(m, power, dir, fail, wrote) ==
    LET dirs == IF dir = "Clockwise" THEN <<m.dir_active, m.dir_passive>>
                ELSE <<m.dir_passive, m.dir_active>>
    IN  RunSteps(m, <<Step("pwm", DutyFraction(power, U8_MAX)),
                      Step("dir_0", dirs[1]),
                      Step("dir_1", dirs[2])>>, 1, fail, wrote, <<>>)

\* MyMotor::drive
MyMotorDrive(m, power, dir, fail, wrote) ==
    LET dirs == IF dir = "Clockwise" THEN <<m.dir_active, m.dir_passive>>
                ELSE <<m.dir_passive, m.dir_active>>
    IN  RunSteps(m, <<Step("dir_0", dirs[1]),
                      Step("dir_1", dirs[2]),
                      Step("pwm", DutyFraction(power, U8_MAX))>>, 1, fail, wrote, <<>>)

\* A neutral that sets the direction outputs before the duty cycle.
MyMotorNeutralDirsFirst(m, fail, wrote) ==
    RunSteps(m, <<Step("dir_0", m.dir_passive),
                  Step("dir_1", m.dir_passive),
                  Step("pwm", FullyOff)>>, 1, fail, wrote, <<>>)

\* MyMotor::neutral
MyMotorNeutral(m, fail, wrote) ==
    RunSteps(m, <<Step("pwm", FullyOff),
                  Step("dir_0", m.dir_passive),
                  Step("dir_1", m.dir_passive)>>, 1, fail, wrote, <<>>)

NoMotorCall ==
    [op |-> "none", power |-> 0, dir |-> "none", before |-> NoMotor, ok |-> TRUE,
     trace |-> <<>>]

(***************************************************************************)
(* State.                                                                  *)
(***************************************************************************)
VARIABLES
    running,    \* the task the executor is polling, or "none"
    panic,      \* the task whose panic stopped the program, or "none"
    faults,     \* Err results injected so far
    wire,       \* bytes of the current frame still on the serial line
    sentLog,    \* history: the frames sent, in order
    rxbuf,      \* bytes received by the UART and not yet consumed
    pc_main,    \* main: "fill_buf", "lock", "drive"
    decoder,    \* main: the CobsDecoder of the frame being read
    p, th, tu,  \* main: the drive state
    emitted,    \* history: the RxMessages deserialised, in order
    driveLog,   \* history: main's drive calls: [cmd: the message it was made for, args]
    lastRead,   \* history: how main's last read ended
    leftover,   \* history: bytes of the last chunk read that were left in the buffer
    SIGNAL,     \* the signal's slot: TRUE when a notification is pending
    pc_wd,      \* safety timer: "select", "lock", "neutral"
    timer,      \* safety timer: ticks left of Timer::after_millis(500)
    pc_ov,      \* override: "wait_low", "lock_d", "drive", "wait_high", "lock_n", "neutral"
    ovLog,      \* history: the override's calls on the robot: [op, args], in order
    button,     \* level of the button pin: "high" (released) or "low" (pressed)
    edges,      \* button level changes so far
    robot_m,    \* the mutex: the task holding it, or "none"
    robot,      \* what the robot's motors were last told
    lastCall,   \* history: the last call made on the robot (seq alternates call by call)
    sinceAct,   \* history: ticks since the last SIGNAL.signal(), capped
    sinceTrip,  \* history: ticks since the safety timer last called neutral(), capped
    driveAge,   \* history: ticks the robot has been out of neutral, capped
    gapsOK,     \* history: every gap between notifications was below the timeout
    tripped,    \* history: the safety timer has called neutral()
    restarts,   \* history: races the safety timer restarted on a notification
    motor,      \* a MyMotor: its outputs and its two levels, or NoMotor before new()
    motorCall   \* history: the last call on the motor

vars == <<running, panic, faults, wire, sentLog, rxbuf, pc_main, decoder,
          p, th, tu, emitted, driveLog, lastRead, leftover, SIGNAL, pc_wd, timer,
          pc_ov, ovLog, button, edges, robot_m, robot, lastCall,
          sinceAct, sinceTrip, driveAge, gapsOK, tripped, restarts,
          motor, motorCall>>

envVars   == <<wire, sentLog, rxbuf>>
mainVars  == <<pc_main, decoder, p, th, tu, emitted, driveLog, lastRead, leftover>>
wdVars    == <<pc_wd, timer>>
ovVars    == <<pc_ov, ovLog>>
btnVars   == <<button, edges>>
clockVars == <<sinceAct, sinceTrip, driveAge, gapsOK>>
motorVars == <<motor, motorCall>>
\* every variable of the firmware's tasks
roverVars == <<running, panic, faults, envVars, mainVars, SIGNAL, wdVars, ovVars,
               btnVars, robot_m, robot, lastCall, clockVars, tripped, restarts>>

\* A panic (panic-halt, panic-probe) stops the executor and every task.
halted == panic # "none"

Cap == TimeoutTicks + 1
Min(a, b) == IF a < b THEN a ELSE b

\* The override's preset: MecanumPower::new(1.0), FRAC_PI_2, Turn::new(0.0)
FULL_POWER == 3
FRAC_PI_2 == 4

Neutral == [mode |-> "neutral", p |-> 0, th |-> 0, tu |-> 0]
Driven(a, b, c) == [mode |-> "drive", p |-> a, th |-> b, tu |-> c]
\* some motors updated, some not
Partial == [mode |-> "partial", p |-> 0, th |-> 0, tu |-> 0]

NoCall == [by |-> "none", op |-> "none", args |-> <<>>, ok |-> TRUE, held |-> TRUE,
           seq |-> 0]

Init ==
    /\ running = "none"
    /\ panic = "none"
    /\ faults = 0
    /\ wire = <<>>
    /\ sentLog = <<>>
    /\ rxbuf = <<>>
    /\ pc_main = "fill_buf"
    /\ decoder = NewDecoder
    /\ p = 0
    /\ th = 0
    /\ tu = 0
    /\ emitted = <<>>
    /\ driveLog = <<>>
    /\ lastRead = "none"
    /\ leftover = 0
    /\ SIGNAL = FALSE
    /\ pc_wd = "select"
    /\ timer = TimeoutTicks
    /\ pc_ov = "wait_low"
    /\ ovLog = <<>>
    /\ button = "high"
    /\ edges = 0
    /\ robot_m = "none"
    /\ robot = Neutral
    /\ lastCall = NoCall
    /\ sinceAct = 0
    /\ sinceTrip = Cap
    /\ driveAge = 0
    /\ gapsOK = TRUE
    /\ tripped = FALSE
    /\ restarts = 0
    /\ motor = NoMotor
    /\ motorCall = NoMotorCall

(***************************************************************************)
(* The executor, the mutex and the robot.                                  *)
(***************************************************************************)
\* The executor polls one task at a time; a task that did not reach a
\* pending .await keeps running.
CanRun(t) == ~halted /\ running \in {"none", t}

\* A lock() that returns without taking the mutex.
LockNoAcquire(t) ==
    /\ CanRun(t)
    /\ running' = t
    /\ robot_m' = robot_m

\* Mutex::lock().await: taken at once when free; otherwise the task waits.
Lock(t) ==
    /\ CanRun(t)
    /\ IF robot_m = "none"
           THEN robot_m' = t /\ running' = t
           ELSE running = t /\ robot_m' = robot_m /\ running' = "none"

\* A guard kept alive past the statement.
UnlockKept(t) == robot_m

\* Dropping the MutexGuard at the end of the statement.
Unlock(t) == IF robot_m = t THEN "none" ELSE robot_m

\* The results a call on the robot can have: Ok with the motors set, or Err
\* with the motors untouched or partly set.
Outcomes(target) ==
    {[ok |-> TRUE, robot |-> target]}
    \cup (IF faults < MaxFaults
              THEN {[ok |-> FALSE, robot |-> robot], [ok |-> FALSE, robot |-> Partial]}
              ELSE {})

\* A call t makes on the robot: the motors, the fault count and the histories.
Call(t, op, args, r) ==
    /\ robot' = r.robot
    /\ faults' = IF r.ok THEN faults ELSE faults + 1
    /\ lastCall' = [by |-> t, op |-> op, args |-> args, ok |-> r.ok, held |-> robot_m = t,
                    seq |-> 1 - lastCall.seq]
    /\ driveAge' = IF r.robot.mode = "neutral" THEN 0 ELSE driveAge

(***************************************************************************)
(* The environment: the sender, the UART interrupt, the button.            *)
(***************************************************************************)
\* The sender puts one more frame of F on the line.
Send(F) ==
    /\ ~halted
    /\ wire = <<>>
    /\ Len(sentLog) < MaxFrames
    /\ \E f \in F :
         /\ wire' = f.bytes
         /\ sentLog' = Append(sentLog, [kind |-> f.kind, msg |-> f.msg])
    /\ UNCHANGED <<motorVars, running, panic, faults, rxbuf, mainVars, SIGNAL, wdVars, ovVars,
                   btnVars, robot_m, robot, lastCall, clockVars, tripped, restarts>>

\* The UART interrupt stores the next byte in the receive buffer.
UartRx ==
    /\ ~halted
    /\ wire # <<>>
    /\ rxbuf' = Append(rxbuf, Head(wire))
    /\ wire' = Tail(wire)
    /\ UNCHANGED <<motorVars, running, panic, faults, sentLog, mainVars, SIGNAL, wdVars, ovVars,
                   btnVars, robot_m, robot, lastCall, clockVars, tripped, restarts>>

\* The button is pressed (low) or released (high).
ButtonEdge ==
    /\ ~halted
    /\ edges < MaxEdges
    /\ button' = IF button = "high" THEN "low" ELSE "high"
    /\ edges' = edges + 1
    /\ UNCHANGED <<motorVars, running, panic, faults, envVars, mainVars, SIGNAL, wdVars, ovVars,
                   robot_m, robot, lastCall, clockVars, tripped, restarts>>

(***************************************************************************)
(* main: the command loop.                                                 *)
(***************************************************************************)
\* A merge that resets an absent field, and a change flag raised by the
\* power field only.
MergeFieldReset(cur, opt) == IF opt # None THEN opt ELSE 0
ChangeNeededPowerOnly(m) == m.p # None
\* A change flag raised for every message.
ChangeNeededAlways(m) == TRUE

\* rx_message.X.inspect(|v| { X = *v; change_needed = true; })
MergeField(cur, opt) == IF opt # None THEN opt ELSE cur
ChangeNeeded(m) == m.p # None \/ m.th # None \/ m.tu # None

\* The chunk lengths fill_buf can return: everything received (WholeBuffer),
\* or any part of it, none included (AnyChunk: the ring buffer wraps, a read
\* returns early).
WholeBuffer == {Len(rxbuf)} \ {0}
AnyChunk == 0..Len(rxbuf)

\* A loop that consumes the whole chunk whatever push returned.
UsedAll(r, len) == len

\* rx.consume(m) after Ok(Some((n, m))), rx.consume(len) after Ok(None) and Err
Used(r, len) == IF r.res = "Some" THEN r.m ELSE len

\* One pass from rx.fill_buf().await to the next .await: push the first len
\* bytes into the decoder, consume, and for a completed frame deserialise,
\* signal and merge.
MainRead(Lengths) ==
    /\ CanRun("main")
    /\ pc_main = "fill_buf"
    /\ \E len \in Lengths :
         LET buf  == SubSeq(rxbuf, 1, len)
             r    == Push(decoder, buf)
             used == Used(r, len)
             d    == Deserialize(SubSeq(r.dec.dest, 1, r.n))
         IN
         /\ rxbuf' = SubSeq(rxbuf, used + 1, Len(rxbuf))
         /\ leftover' = len - used
         /\ IF r.res = "None" THEN
                /\ decoder' = r.dec
                /\ lastRead' = "incomplete"
                /\ UNCHANGED <<pc_main, p, th, tu, emitted, SIGNAL, sinceAct, running>>
            ELSE IF r.res = "Err" THEN
                /\ decoder' = NewDecoder
                /\ lastRead' = "cobs_error"
                /\ UNCHANGED <<pc_main, p, th, tu, emitted, SIGNAL, sinceAct, running>>
            ELSE IF ~d.ok THEN
                /\ decoder' = NewDecoder
                /\ lastRead' = "bad_payload"
                /\ UNCHANGED <<pc_main, p, th, tu, emitted, SIGNAL, sinceAct, running>>
            ELSE
                /\ decoder' = NewDecoder
                /\ lastRead' = "message"
                /\ SIGNAL' = TRUE
                /\ sinceAct' = 0
                /\ emitted' = Append(emitted, d.msg)
                /\ p' = MergeField(p, d.msg.p)
                /\ th' = MergeField(th, d.msg.th)
                /\ tu' = MergeField(tu, d.msg.tu)
                /\ pc_main' = IF ChangeNeeded(d.msg) THEN "lock" ELSE "fill_buf"
                /\ running' = IF ChangeNeeded(d.msg) THEN "main" ELSE "none"
    /\ UNCHANGED <<motorVars, panic, faults, wire, sentLog, driveLog, wdVars, ovVars, btnVars,
                   robot_m, robot, lastCall, sinceTrip, driveAge, gapsOK, tripped, restarts>>

\* rx.fill_buf().await.unwrap() on an Err (no data to return): panic.
MainReadErr ==
    /\ CanRun("main")
    /\ pc_main = "fill_buf"
    /\ rxbuf = <<>>
    /\ faults < MaxFaults
    /\ faults' = faults + 1
    /\ panic' = "main"
    /\ UNCHANGED <<motorVars, running, envVars, mainVars, SIGNAL, wdVars, ovVars, btnVars,
                   robot_m, robot, lastCall, clockVars, tripped, restarts>>

\* robot_m.lock().await
MainLock ==
    /\ pc_main = "lock"
    /\ Lock("main")
    /\ pc_main' = IF robot_m = "none" THEN "drive" ELSE "lock"
    /\ UNCHANGED <<motorVars, panic, faults, envVars, decoder, p, th, tu, emitted, driveLog,
                   lastRead, leftover, SIGNAL, wdVars, ovVars, btnVars, robot,
                   lastCall, clockVars, tripped, restarts>>

\* A command loop that unwraps the result of drive.
MainDriveUnwrap ==
    /\ CanRun("main")
    /\ pc_main = "drive"
    /\ \E r \in Outcomes(Driven(p, th, tu)) :
         /\ Call("main", "drive", <<p, th, tu>>, r)
         /\ IF r.ok
                THEN /\ robot_m' = Unlock("main")
                     /\ pc_main' = "fill_buf"
                     /\ running' = "none"
                     /\ UNCHANGED panic
                ELSE /\ panic' = "main"
                     /\ UNCHANGED <<robot_m, pc_main, running>>
    /\ driveLog' = Append(driveLog, [cmd |-> Len(emitted), args |-> <<p, th, tu>>])
    /\ UNCHANGED <<motorVars, envVars, decoder, p, th, tu, emitted, lastRead, leftover,
                   SIGNAL, wdVars, ovVars, btnVars, sinceAct, sinceTrip, gapsOK, tripped, restarts>>

\* .drive(p, th, tu), the result logged and dropped, the guard dropped
MainDrive ==
    /\ CanRun("main")
    /\ pc_main = "drive"
    /\ \E r \in Outcomes(Driven(p, th, tu)) : Call("main", "drive", <<p, th, tu>>, r)
    /\ robot_m' = Unlock("main")
    /\ driveLog' = Append(driveLog, [cmd |-> Len(emitted), args |-> <<p, th, tu>>])
    /\ pc_main' = "fill_buf"
    /\ running' = "none"
    /\ UNCHANGED <<motorVars, panic, envVars, decoder, p, th, tu, emitted, lastRead, leftover,
                   SIGNAL, wdVars, ovVars, btnVars, sinceAct, sinceTrip, gapsOK, tripped, restarts>>

(***************************************************************************)
(* safety_timer_generic: the watchdog.                                     *)
(***************************************************************************)
\* A watchdog that takes the notification and keeps the running timer.
WdSignalNoRestart ==
    /\ CanRun("wd")
    /\ pc_wd = "select"
    /\ timer > 0
    /\ SIGNAL
    /\ SIGNAL' = FALSE
    /\ restarts' = restarts + 1
    /\ UNCHANGED <<motorVars, running, panic, faults, envVars, mainVars, wdVars, ovVars, btnVars,
                   robot_m, robot, lastCall, clockVars, tripped>>

\* A watchdog whose wait leaves the notification pending.
WdSignalKeeps ==
    /\ CanRun("wd")
    /\ pc_wd = "select"
    /\ timer > 0
    /\ SIGNAL
    /\ restarts < MaxFrames + 1
    /\ timer' = TimeoutTicks
    /\ restarts' = restarts + 1
    /\ UNCHANGED <<motorVars, running, panic, faults, envVars, mainVars, SIGNAL, pc_wd, ovVars,
                   btnVars, robot_m, robot, lastCall, clockVars, tripped>>

\* select(Timer, sig.wait()) returns Either::Second: the notification is
\* taken and the loop starts a new race with a new timer.
WdSignal ==
    /\ CanRun("wd")
    /\ pc_wd = "select"
    /\ timer > 0
    /\ SIGNAL
    /\ SIGNAL' = FALSE
    /\ timer' = TimeoutTicks
    /\ restarts' = restarts + 1
    /\ UNCHANGED <<motorVars, running, panic, faults, envVars, mainVars, pc_wd, ovVars, btnVars,
                   robot_m, robot, lastCall, clockVars, tripped>>

\* select returns Either::First: the timer, polled first, has fired.
WdTimeout ==
    /\ CanRun("wd")
    /\ pc_wd = "select"
    /\ timer = 0
    /\ pc_wd' = "lock"
    /\ running' = "wd"
    /\ UNCHANGED <<motorVars, panic, faults, envVars, mainVars, SIGNAL, timer, ovVars, btnVars,
                   robot_m, robot, lastCall, clockVars, tripped, restarts>>

\* robot.lock().await
WdLock ==
    /\ pc_wd = "lock"
    /\ Lock("wd")
    /\ pc_wd' = IF robot_m = "none" THEN "neutral" ELSE "lock"
    /\ UNCHANGED <<motorVars, panic, faults, envVars, mainVars, SIGNAL, timer, ovVars, btnVars,
                   robot, lastCall, clockVars, tripped, restarts>>

\* A watchdog that goes back to its loop when neutral() fails.
WdNeutralRetry ==
    /\ CanRun("wd")
    /\ pc_wd = "neutral"
    /\ \E r \in Outcomes(Neutral) : Call("wd", "neutral", <<>>, r)
    /\ robot_m' = Unlock("wd")
    /\ pc_wd' = "select"
    /\ timer' = TimeoutTicks
    /\ running' = "none"
    /\ sinceTrip' = 0
    /\ tripped' = TRUE
    /\ UNCHANGED <<motorVars, panic, envVars, mainVars, SIGNAL, ovVars, btnVars, sinceAct, gapsOK,
                   restarts>>

\* A watchdog whose neutral() also clears the drive state.
WdNeutralClears ==
    /\ CanRun("wd")
    /\ pc_wd = "neutral"
    /\ \E r \in Outcomes(Neutral) :
         /\ Call("wd", "neutral", <<>>, r)
         /\ IF r.ok
                THEN /\ robot_m' = Unlock("wd")
                     /\ pc_wd' = "select"
                     /\ timer' = TimeoutTicks
                     /\ running' = "none"
                     /\ UNCHANGED panic
                ELSE /\ panic' = "wd"
                     /\ UNCHANGED <<robot_m, pc_wd, timer, running>>
    /\ p' = 0 /\ th' = 0 /\ tu' = 0
    /\ sinceTrip' = 0
    /\ tripped' = TRUE
    /\ UNCHANGED <<motorVars, envVars, pc_main, decoder, emitted, driveLog, lastRead, leftover,
                   SIGNAL, ovVars, btnVars, sinceAct, gapsOK, restarts>>

\* .neutral().expect(..): an Err panics with the guard held
WdNeutral ==
    /\ CanRun("wd")
    /\ pc_wd = "neutral"
    /\ \E r \in Outcomes(Neutral) :
         /\ Call("wd", "neutral", <<>>, r)
         /\ IF r.ok
                THEN /\ robot_m' = Unlock("wd")
                     /\ pc_wd' = "select"
                     /\ timer' = TimeoutTicks
                     /\ running' = "none"
                     /\ UNCHANGED panic
                ELSE /\ panic' = "wd"
                     /\ UNCHANGED <<robot_m, pc_wd, timer, running>>
    /\ sinceTrip' = 0
    /\ tripped' = TRUE
    /\ UNCHANGED <<motorVars, envVars, mainVars, SIGNAL, ovVars, btnVars, sinceAct, gapsOK, restarts>>

(***************************************************************************)
(* generic_rover_task: the manual override.                                *)
(***************************************************************************)
\* An override whose press also raises the notification.
OvPressedSignals ==
    /\ CanRun("ov")
    /\ pc_ov = "wait_low"
    /\ button = "low"
    /\ pc_ov' = "lock_d"
    /\ running' = "ov"
    /\ SIGNAL' = TRUE
    /\ UNCHANGED <<motorVars, panic, faults, envVars, mainVars, wdVars, ovLog, btnVars,
                   robot_m, robot, lastCall, clockVars, tripped, restarts>>

\* button.wait_for_low().await returns
OvPressed ==
    /\ CanRun("ov")
    /\ pc_ov = "wait_low"
    /\ button = "low"
    /\ pc_ov' = "lock_d"
    /\ running' = "ov"
    /\ UNCHANGED <<motorVars, panic, faults, envVars, mainVars, SIGNAL, wdVars, ovLog, btnVars,
                   robot_m, robot, lastCall, clockVars, tripped, restarts>>

\* robot.lock().await before drive
OvLockDrive ==
    /\ pc_ov = "lock_d"
    /\ Lock("ov")
    /\ pc_ov' = IF robot_m = "none" THEN "drive" ELSE "lock_d"
    /\ UNCHANGED <<motorVars, panic, faults, envVars, mainVars, SIGNAL, wdVars, ovLog, btnVars,
                   robot, lastCall, clockVars, tripped, restarts>>

\* An override that waits for the press again after its drive.
OvDriveRepeats ==
    /\ CanRun("ov")
    /\ pc_ov = "drive"
    /\ \E r \in Outcomes(Driven(FULL_POWER, FRAC_PI_2, 0)) :
         /\ Call("ov", "drive", <<FULL_POWER, FRAC_PI_2, 0>>, r)
         /\ ovLog' = Append(ovLog, [op |-> "drive", args |-> <<FULL_POWER, FRAC_PI_2, 0>>])
         /\ IF r.ok
                THEN /\ robot_m' = Unlock("ov")
                     /\ pc_ov' = "wait_low"
                     /\ running' = "none"
                     /\ UNCHANGED panic
                ELSE /\ panic' = "ov"
                     /\ UNCHANGED <<robot_m, pc_ov, running>>
    /\ UNCHANGED <<motorVars, envVars, mainVars, SIGNAL, wdVars, btnVars, sinceAct, sinceTrip,
                   gapsOK, tripped, restarts>>

\* .drive(1.0, FRAC_PI_2, 0.0).unwrap(): an Err panics with the guard held
OvDrive ==
    /\ CanRun("ov")
    /\ pc_ov = "drive"
    /\ \E r \in Outcomes(Driven(FULL_POWER, FRAC_PI_2, 0)) :
         /\ Call("ov", "drive", <<FULL_POWER, FRAC_PI_2, 0>>, r)
         /\ ovLog' = Append(ovLog, [op |-> "drive", args |-> <<FULL_POWER, FRAC_PI_2, 0>>])
         /\ IF r.ok
                THEN /\ robot_m' = Unlock("ov")
                     /\ pc_ov' = "wait_high"
                     /\ running' = "none"
                     /\ UNCHANGED panic
                ELSE /\ panic' = "ov"
                     /\ UNCHANGED <<robot_m, pc_ov, running>>
    /\ UNCHANGED <<motorVars, envVars, mainVars, SIGNAL, wdVars, btnVars, sinceAct, sinceTrip,
                   gapsOK, tripped, restarts>>

\* button.wait_for_high().await returns
OvReleased ==
    /\ CanRun("ov")
    /\ pc_ov = "wait_high"
    /\ button = "high"
    /\ pc_ov' = "lock_n"
    /\ running' = "ov"
    /\ UNCHANGED <<motorVars, panic, faults, envVars, mainVars, SIGNAL, wdVars, ovLog, btnVars,
                   robot_m, robot, lastCall, clockVars, tripped, restarts>>

\* robot.lock().await before neutral
OvLockNeutral ==
    /\ pc_ov = "lock_n"
    /\ Lock("ov")
    /\ pc_ov' = IF robot_m = "none" THEN "neutral" ELSE "lock_n"
    /\ UNCHANGED <<motorVars, panic, faults, envVars, mainVars, SIGNAL, wdVars, ovLog, btnVars,
                   robot, lastCall, clockVars, tripped, restarts>>

\* .neutral().unwrap(): an Err panics with the guard held
OvNeutral ==
    /\ CanRun("ov")
    /\ pc_ov = "neutral"
    /\ \E r \in Outcomes(Neutral) :
         /\ Call("ov", "neutral", <<>>, r)
         /\ ovLog' = Append(ovLog, [op |-> "neutral", args |-> <<>>])
         /\ IF r.ok
                THEN /\ robot_m' = Unlock("ov")
                     /\ pc_ov' = "wait_low"
                     /\ running' = "none"
                     /\ UNCHANGED panic
                ELSE /\ panic' = "ov"
                     /\ UNCHANGED <<robot_m, pc_ov, running>>
    /\ UNCHANGED <<motorVars, envVars, mainVars, SIGNAL, wdVars, btnVars, sinceAct, sinceTrip,
                   gapsOK, tripped, restarts>>

(***************************************************************************)
(* Time.                                                                   *)
(***************************************************************************)
\* A task the executor would poll now.
Ready(t) ==
    IF t = "main" THEN pc_main # "fill_buf" \/ rxbuf # <<>>
    ELSE IF t = "wd" THEN pc_wd # "select" \/ SIGNAL \/ timer = 0
    ELSE \/ pc_ov \notin {"wait_low", "wait_high"}
         \/ (pc_ov = "wait_low" /\ button = "low")
         \/ (pc_ov = "wait_high" /\ button = "high")

Idle == running = "none" /\ \A t \in {"main", "wd", "ov"} : ~Ready(t)

\* One tick passes while every task waits (the executor sleeps), or after a
\* panic.
Tick ==
    /\ halted \/ Idle
    /\ timer' = IF halted THEN timer ELSE timer - 1
    /\ sinceAct' = Min(sinceAct + 1, Cap)
    /\ sinceTrip' = Min(sinceTrip + 1, Cap)
    /\ driveAge' = IF robot.mode = "neutral" THEN 0 ELSE Min(driveAge + 1, Cap)
    /\ gapsOK' = (gapsOK /\ sinceAct + 1 < TimeoutTicks)
    /\ UNCHANGED <<motorVars, running, panic, faults, envVars, mainVars, SIGNAL, pc_wd, ovVars,
                   btnVars, robot_m, robot, lastCall, tripped, restarts>>

(***************************************************************************)
(* A MyMotor and its caller.                                               *)
(***************************************************************************)
\* MyMotor::new over outputs in whatever state the hardware left them
MotorNew ==
    /\ ~motor.built
    /\ \E pwm \in {FullyOff, DutyFraction(128, U8_MAX)}, d0 \in PinStates, d1 \in PinStates,
          a \in PinStates :
         motor' = MyMotorNew(pwm, d0, d1, a)
    /\ UNCHANGED <<motorCall, roverVars>>

\* motor.drive(power, dir)
MotorDrive ==
    /\ motor.built
    /\ \E power \in Powers, dir \in Directions, fail \in 0..3, wrote \in BOOLEAN :
         LET r == MyMotorDrive(motor, power, dir, fail, wrote) IN
         /\ motor' = r.m
         /\ motorCall' = [op |-> "drive", power |-> power, dir |-> dir,
                          before |-> motor, ok |-> r.ok, trace |-> r.trace]
    /\ UNCHANGED roverVars

\* motor.neutral()
MotorNeutral ==
    /\ motor.built
    /\ \E fail \in 0..3, wrote \in BOOLEAN :
         LET r == MyMotorNeutral(motor, fail, wrote) IN
         /\ motor' = r.m
         /\ motorCall' = [op |-> "neutral", power |-> 0, dir |-> "none",
                          before |-> motor, ok |-> r.ok, trace |-> r.trace]
    /\ UNCHANGED roverVars

(***************************************************************************)
(* The specifications.                                                     *)
(***************************************************************************)
\* One motor driven by any caller.
NextMotor == MotorNew \/ MotorDrive \/ MotorNeutral

SpecMotor == Init /\ [][NextMotor]_vars

Tasks ==
    \/ MainReadErr \/ MainLock \/ MainDrive
    \/ WdSignal \/ WdTimeout \/ WdLock \/ WdNeutral
    \/ OvPressed \/ OvLockDrive \/ OvDrive
    \/ OvReleased \/ OvLockNeutral \/ OvNeutral

\* {"p":0.5}  {"th":1.57}  {}
TimedFrames ==
    { ValidFrame(<<OBJ, KP, N1>>, Msg(1, None, None)),
      ValidFrame(<<OBJ, KTH, N2>>, Msg(None, 2, None)),
      ValidFrame(<<OBJ>>, NoMessage) }

\* The whole program, with time, the button and a sender of valid frames.
Next ==
    \/ Send(TimedFrames) \/ UartRx \/ ButtonEdge \/ Tick
    \/ MainRead(WholeBuffer) \/ Tasks

Spec == Init /\ [][Next]_vars

\* The command loop alone on every stream of valid and damaged frames, cut
\* into chunks in every way; the watchdog only takes the notifications.
NextDecode ==
    \/ Send(AllFrames) \/ UartRx
    \/ MainRead(AnyChunk) \/ MainLock \/ MainDrive
    \/ WdSignal

SpecDecode == Init /\ [][NextDecode]_vars

\* {"p":0.5}  {}
LockFrames ==
    { ValidFrame(<<OBJ, KP, N1>>, Msg(1, None, None)),
      ValidFrame(<<OBJ>>, NoMessage) }

\* The whole program with a sender of two kinds of frame, one that makes
\* main call the robot and one that does not.
NextLock ==
    \/ Send(LockFrames) \/ UartRx \/ ButtonEdge \/ Tick
    \/ MainRead(WholeBuffer) \/ Tasks

\* The executor does not stop while a task is ready: a task whose lock()
\* can complete is polled.
FairSpec ==
    /\ Init /\ [][NextLock]_vars
    /\ WF_vars(MainLock)
    /\ WF_vars(WdLock)
    /\ WF_vars(OvLockDrive)
    /\ WF_vars(OvLockNeutral)

\* {"p":0.5}  {"th":1.57}  {}  {"p":"not-a-number"}  malformed stuffing
MixedFrames ==
    { ValidFrame(<<OBJ, KP, N1>>, Msg(1, None, None)),
      ValidFrame(<<OBJ, KTH, N2>>, Msg(None, 2, None)),
      ValidFrame(<<OBJ>>, NoMessage),
      BadPayloadFrame(<<OBJ, KP, STR>>),
      CorruptFrame(BadStuffing) }

\* The whole program with a sender of valid and damaged frames.
NextMixed ==
    \/ Send(MixedFrames) \/ UartRx \/ ButtonEdge \/ Tick
    \/ MainRead(WholeBuffer) \/ Tasks

SpecMixed == Init /\ [][NextMixed]_vars

(***************************************************************************)
(* Properties of the command loop (SpecDecode).                            *)
(***************************************************************************)
Last(s) == s[Len(s)]

\* Every byte sent has been consumed and main waits for more.
Quiescent == wire = <<>> /\ rxbuf = <<>> /\ pc_main = "fill_buf"

IsValid(e) == e.kind = "valid"
AllValid == \A i \in DOMAIN sentLog : sentLog[i].kind = "valid"
NoCorrupt == \A i \in DOMAIN sentLog : sentLog[i].kind # "corrupt"

\* The messages of the valid frames sent, in order.
RECURSIVE ValidMsgs(_)
ValidMsgs(log) ==
    IF log = <<>> THEN <<>>
    ELSE (IF Head(log).kind = "valid" THEN <<Head(log).msg>> ELSE <<>>)
         \o ValidMsgs(Tail(log))

\* The drive state the messages msgs[1..i] lead to from the zero triple,
\* field by field: a present field is taken, an absent one kept.
RECURSIVE StateAfter(_, _)
StateAfter(msgs, i) ==
    IF i = 0 THEN <<0, 0, 0>>
    ELSE LET s == StateAfter(msgs, i - 1)
             m == msgs[i]
         IN <<IF m.p = None THEN s[1] ELSE m.p,
              IF m.th = None THEN s[2] ELSE m.th,
              IF m.tu = None THEN s[3] ELSE m.tu>>

\* C6: merging is field-wise (a present field overwrites the drive state's
\* field with its value, an absent field leaves it alone), merging the same
\* message a second time changes nothing, and the drive state starts at the
\* zero triple.
C6_MergeFieldWise ==
    /\ [](emitted = <<>> => <<p, th, tu>> = <<0, 0, 0>>)
    /\ [][emitted' # emitted =>
            LET m == Last(emitted') IN
            /\ p'  = (IF m.p  = None THEN p  ELSE m.p)
            /\ th' = (IF m.th = None THEN th ELSE m.th)
            /\ tu' = (IF m.tu = None THEN tu ELSE m.tu)
            /\ (emitted # <<>> /\ Last(emitted) = m
                    => <<p', th', tu'>> = <<p, th, tu>>)]_vars

\* {"p":0.5} then {"th":1.57}: th is overwritten and p is kept.
C6_Witness ==
    /\ Len(emitted) = 2
    /\ emitted[1] = Msg(1, None, None)
    /\ emitted[2] = Msg(None, 2, None)
    /\ <<p, th, tu>> = <<1, 2, 0>>

\* The drive calls main made for its i-th message.
DrivesFor(i) == {k \in DOMAIN driveLog : driveLog[k].cmd = i}

\* C7: for every message whose merge changed at least one field, main makes
\* exactly one drive call, and its arguments are the whole drive state after
\* that merge.
C7_OneDriveFullTriple ==
    \A i \in DOMAIN emitted :
        (/\ StateAfter(emitted, i) # StateAfter(emitted, i - 1)
         /\ (i < Len(emitted) \/ pc_main = "fill_buf"))
        => /\ Cardinality(DrivesFor(i)) = 1
           /\ \A k \in DrivesFor(i) : driveLog[k].args = StateAfter(emitted, i)

\* {"p":0.5} then {"th":1.57}: two drive calls, the second drive(0.5, 1.57, 0.0).
C7_Witness ==
    /\ emitted = <<Msg(1, None, None), Msg(None, 2, None)>>
    /\ pc_main = "fill_buf"
    /\ Len(driveLog) = 2
    /\ driveLog[1].args = <<1, 0, 0>>
    /\ driveLog[2].args = <<1, 2, 0>>

\* C8: on a stream of valid frames only, however it is cut into chunks, the
\* messages produced are the messages sent, one per frame and in order: at
\* any time a prefix of them, and all of them once every byte is consumed,
\* with no partial frame left in the decoder.
C8_OnePerFrameInOrder ==
    AllValid =>
        /\ Len(emitted) <= Len(sentLog)
        /\ \A i \in DOMAIN emitted : emitted[i] = sentLog[i].msg
        /\ (Quiescent => Len(emitted) = Len(sentLog) /\ decoder = NewDecoder)

\* A chunk held the end of the first frame and bytes of the second: the
\* first frame came out as sent and the bytes of the second stayed in the
\* buffer.
C8_Witness ==
    /\ AllValid
    /\ Len(sentLog) = 2
    /\ Len(emitted) = 1
    /\ emitted[1] = sentLog[1].msg
    /\ lastRead = "message"
    /\ leftover > 0
    /\ rxbuf # <<>>

\* C9: a valid frame that follows a damaged frame is decoded into its
\* message, however the stream is cut into chunks.
C9_Resynchronization ==
    (/\ Len(sentLog) = 2
     /\ sentLog[1].kind = "corrupt"
     /\ sentLog[2].kind = "valid"
     /\ Quiescent)
    => emitted # <<>> /\ Last(emitted) = sentLog[2].msg

\* C10: a frame whose payload does not deserialise produces no message,
\* leaves the drive state, the notification and the robot alone and leaves
\* main reading; the valid frames around it are processed as usual.
C10_BadPayloadDropped ==
    /\ [][(Len(rxbuf') < Len(rxbuf) /\ lastRead' = "bad_payload") =>
            /\ UNCHANGED <<p, th, tu, emitted, driveLog, SIGNAL, robot, lastCall,
                           robot_m, panic>>
            /\ pc_main' = "fill_buf"]_vars
    /\ [](NoCorrupt =>
            /\ Len(emitted) <= Len(ValidMsgs(sentLog))
            /\ \A i \in DOMAIN emitted : emitted[i] = ValidMsgs(sentLog)[i]
            /\ (Quiescent => emitted = ValidMsgs(sentLog)))

\* {"p":"not-a-number"} then {"p":0.5}: one message, the second frame's.
C10_Witness ==
    /\ Len(sentLog) = 2
    /\ sentLog[1].kind = "badpayload"
    /\ sentLog[2] = [kind |-> "valid", msg |-> Msg(1, None, None)]
    /\ Quiescent
    /\ emitted = <<Msg(1, None, None)>>
    /\ driveLog = <<[cmd |-> 1, args |-> <<1, 0, 0>>]>>

(***************************************************************************)
(* Properties of the whole program (Spec, FairSpec).                       *)
(***************************************************************************)
TaskIds == {"main", "wd", "ov"}

Driving == robot.mode # "neutral"

\* t is between lock().await returning and the guard being dropped.
InCS(t) ==
    IF t = "main" THEN pc_main = "drive"
    ELSE IF t = "wd" THEN pc_wd = "neutral"
    ELSE pc_ov \in {"drive", "neutral"}

\* t is at lock().await.
AtLock(t) ==
    IF t = "main" THEN pc_main = "lock"
    ELSE IF t = "wd" THEN pc_wd = "lock"
    ELSE pc_ov \in {"lock_d", "lock_n"}

\* C1: the robot is never out of neutral for more than the timeout with no
\* valid command decoded in that time, whatever failed on the way.  (Left
\* out: the runs ended by a failed call on the robot in the watchdog or in
\* the override, which leaves the serial read error.)
C1_NeverDrivingPastTimeout ==
    \/ panic \in {"wd", "ov"}
    \/ ~(Driving /\ driveAge > TimeoutTicks /\ sinceAct > TimeoutTicks)

\* C2: once the link has been silent for the timeout, the watchdog has
\* called neutral(): at the end of the timeout window after the last
\* notification, and again every timeout period after that.  (Left out: the
\* runs the watchdog's own neutral() failure or a serial read error ended.)
C2_NeutralWithinTimeout ==
    \/ panic \in {"wd", "main"}
    \/ /\ sinceAct > TimeoutTicks => sinceTrip <= TimeoutTicks
       /\ (Idle /\ sinceAct = TimeoutTicks) => sinceTrip = 0

\* C3: while every gap between notifications (the first one counted from
\* the start) is below the timeout, the watchdog never calls neutral().
C3_NoTripWhileActive == gapsOK => ~tripped

\* The robot has been driving for more than the timeout, notifications kept
\* restarting the race and the watchdog never tripped.
C3_Witness ==
    /\ gapsOK
    /\ ~tripped
    /\ restarts = 2
    /\ Driving
    /\ driveAge > TimeoutTicks

\* C4: at most one task is inside a critical section, the task inside it
\* holds the mutex, and every call on the robot was made by a task holding
\* the mutex.
C4_MutualExclusion ==
    /\ Cardinality({t \in TaskIds : InCS(t)}) <= 1
    /\ \A t \in TaskIds : InCS(t) => robot_m = t
    /\ lastCall.held

\* The watchdog holds the mutex after the override and main have used it.
C4_Witness ==
    /\ pc_wd = "neutral"
    /\ robot_m = "wd"
    /\ lastCall.by = "ov"
    /\ driveLog # <<>>

\* C5: the mutex is held only by a task in the middle of its poll, never by
\* one waiting; a critical section is one acquire, one call, one release
\* (or the panic of that call); a task at lock() finds the mutex free, and
\* gets it.
C5_LockScope ==
    /\ [](robot_m # "none" => InCS(robot_m) /\ running = robot_m)
    /\ [](\A t \in TaskIds : AtLock(t) => robot_m = "none" /\ running = t /\ ~halted)
    /\ [][/\ (robot_m = "none" /\ robot_m' # "none") => lastCall' = lastCall
          /\ (robot_m # "none" /\ robot_m' = robot_m)
                => (lastCall' = lastCall \/ panic' = robot_m)
          /\ (robot_m # "none" /\ robot_m' # robot_m)
                => (robot_m' = "none" /\ lastCall'.seq # lastCall.seq
                    /\ lastCall'.by = robot_m)
          /\ lastCall' # lastCall => robot_m # "none"]_vars
    /\ \A t \in TaskIds : (AtLock(t) ~> robot_m = t)

\* The override waits at lock() for its neutral() after main and the
\* watchdog have gone through their critical sections.
C5_Witness ==
    /\ pc_ov = "lock_n"
    /\ tripped
    /\ driveLog # <<>>
    /\ robot_m = "none"

(***************************************************************************)
(* Properties of the whole program with damaged frames (SpecMixed).        *)
(***************************************************************************)
\* main's read ended in a framing error or in a payload that does not
\* deserialise.
ReadFailed == Len(rxbuf') < Len(rxbuf) /\ lastRead' \in {"cobs_error", "bad_payload"}

\* A step of the override or of the button.
OverrideStep == pc_ov' # pc_ov \/ ovLog' # ovLog \/ button' # button

\* C11: the notification is raised for every frame decoded and deserialised,
\* a message with no field included, and by nothing else: not by a framing
\* error, not by a payload that does not deserialise, not by the override,
\* whose steps leave the notification and the watchdog's timer alone.
C11_SignalOnMessageOnly ==
    [][/\ emitted' # emitted => (SIGNAL' /\ sinceAct' = 0 /\ lastRead' = "message")
       /\ ((~SIGNAL /\ SIGNAL') \/ sinceAct' < sinceAct)
              => Len(emitted') = Len(emitted) + 1
       /\ ReadFailed => (SIGNAL' = SIGNAL /\ sinceAct' = sinceAct /\ emitted' = emitted)
       /\ OverrideStep => (SIGNAL' = SIGNAL /\ sinceAct' = sinceAct /\ timer' = timer)
      ]_vars

\* After a framing error and a press of the override, which raised nothing,
\* the message {} raised the notification though it changed no field.
C11_Witness ==
    /\ Len(sentLog) = 2
    /\ sentLog[1].kind = "corrupt"
    /\ emitted = <<NoMessage>>
    /\ ovLog # <<>>
    /\ driveLog = <<>>
    /\ restarts = 0
    /\ SIGNAL
    /\ sinceAct = 0

(***************************************************************************)
(* Properties of the whole program (Spec): failures of the calls.          *)
(***************************************************************************)
\* The step is a call of task t on the robot that returned Err.
CallFailed(t) == lastCall' # lastCall /\ lastCall'.by = t /\ ~lastCall'.ok

\* C12: a drive call of main that returns Err stops nothing: the program
\* does not panic, the drive state keeps the merged values, the mutex is
\* released and main goes back to reading, the other tasks are left as they
\* were; and every frame sent, the later ones included, is decoded and, when
\* it has a field, driven.
C12_FailedDriveNotEscalated ==
    /\ [][CallFailed("main") =>
            /\ panic' = "none"
            /\ <<p', th', tu'>> = StateAfter(emitted, Len(emitted))
            /\ robot_m' = "none"
            /\ pc_main' = "fill_buf"
            /\ running' = "none"
            /\ UNCHANGED <<pc_wd, timer, SIGNAL, pc_ov, emitted, rxbuf>>]_vars
    /\ []((panic = "none" /\ Quiescent) =>
            /\ Len(emitted) = Len(sentLog)
            /\ \A i \in DOMAIN emitted :
                 ChangeNeeded(emitted[i]) => Cardinality(DrivesFor(i)) = 1)

\* main's only drive call failed; after it main processed another frame and
\* the watchdog put the robot in neutral.
C12_Witness ==
    /\ faults = 1
    /\ panic = "none"
    /\ Len(driveLog) = 1
    /\ Len(emitted) = 2
    /\ emitted[2] = NoMessage
    /\ Quiescent
    /\ lastCall.by = "wd"
    /\ lastCall.ok
    /\ robot = Neutral

\* C13: a call of the override on the robot that returned Err (the drive on
\* the press or the neutral on the release) has not stopped the program.
C13_OverrideFailureNotEscalated ==
    (lastCall.by = "ov" /\ ~lastCall.ok) => panic # "ov"

\* C14: a neutral() of the watchdog that returns Err is fatal.  The watchdog
\* panics there, with no retry and no return to its loop, and from then on
\* the program is stopped: no task moves and no call is made on the robot.
C14_WatchdogFailureFatal ==
    /\ [][CallFailed("wd") =>
            /\ panic' = "wd"
            /\ pc_wd' = "neutral"
            /\ timer' = timer]_vars
    /\ [][panic = "wd" =>
            UNCHANGED <<panic, pc_main, pc_wd, pc_ov, timer, robot_m, robot, lastCall,
                        driveLog, ovLog, emitted, rxbuf, SIGNAL, restarts>>]_vars
    /\ []((lastCall.by = "wd" /\ ~lastCall.ok) => panic = "wd")

\* The watchdog's neutral() failed with some motors still set, and time has
\* passed since with nothing done about it.
C14_Witness ==
    /\ panic = "wd"
    /\ lastCall = [by |-> "wd", op |-> "neutral", args |-> <<>>, ok |-> FALSE,
                   held |-> TRUE, seq |-> lastCall.seq]
    /\ robot = Partial
    /\ sinceTrip = Cap
    /\ rxbuf # <<>>
    /\ button = "low"
    /\ pc_ov = "wait_low"

(***************************************************************************)
(* Properties of the command loop (SpecDecode): when main calls drive.     *)
(***************************************************************************)
\* main is done with its i-th message.
DoneWith(i) == i < Len(emitted) \/ pc_main = "fill_buf"

\* C15 as stated: for a message whose merge left every field of the drive
\* state as it was, main makes no call on the robot and does not go for the
\* mutex.
C15_NoChangeNoCall ==
    \A i \in DOMAIN emitted :
        StateAfter(emitted, i) = StateAfter(emitted, i - 1)
        => /\ DrivesFor(i) = {}
           /\ i = Len(emitted) => (pc_main = "fill_buf" /\ robot_m = "none")

\* C15: for a message with no field, main makes no call on the robot and
\* does not go for the mutex; for a message with a field, even one that
\* carries the value the drive state already has, main makes one drive call.
C15_NoFieldNoCall ==
    \A i \in DOMAIN emitted :
        IF emitted[i] = NoMessage
            THEN /\ DrivesFor(i) = {}
                 /\ i = Len(emitted) => (pc_main = "fill_buf" /\ robot_m = "none")
            ELSE DoneWith(i) => Cardinality(DrivesFor(i)) = 1

\* {} then {"p":0.0} from the start: no call for the first, and drive(0, 0, 0)
\* for the second though it changed nothing.
C15_Witness ==
    /\ emitted = <<NoMessage, Msg(0, None, None)>>
    /\ Quiescent
    /\ driveLog = <<[cmd |-> 2, args |-> <<0, 0, 0>>]>>
    /\ <<p, th, tu>> = <<0, 0, 0>>

(***************************************************************************)
(* Properties of the whole program with damaged frames (SpecMixed): the    *)
(* drive state.                                                            *)
(***************************************************************************)
\* C16: the drive state is what the merges of the messages made it, and
\* only a merge changes it: no call on the robot by any task, failed or not,
\* no framing error and no payload that does not deserialise does; so every
\* drive of main, after a trip of the watchdog too, carries the values
\* merged so far.
C16_DriveStateOnlyMerged ==
    /\ [](<<p, th, tu>> = StateAfter(emitted, Len(emitted)))
    /\ [](\A k \in DOMAIN driveLog :
             driveLog[k].args = StateAfter(emitted, driveLog[k].cmd))
    /\ [][/\ <<p', th', tu'>> # <<p, th, tu>>
               => (Len(emitted') = Len(emitted) + 1 /\ lastRead' = "message")
          /\ (lastCall' # lastCall \/ ReadFailed \/ OverrideStep \/ pc_wd' # pc_wd)
               => <<p', th', tu'>> = <<p, th, tu>>]_vars

\* {"p":0.5} was driven, the watchdog then put the robot in neutral, and
\* {"th":1.57} has been merged: main holds the mutex to call
\* drive(0.5, 1.57, 0.0), the power being the one from before the trip.
C16_Witness ==
    /\ emitted = <<Msg(1, None, None), Msg(None, 2, None)>>
    /\ driveLog = <<[cmd |-> 1, args |-> <<1, 0, 0>>]>>
    /\ lastCall.by = "wd"
    /\ lastCall.ok
    /\ robot = Neutral
    /\ pc_main = "drive"
    /\ <<p, th, tu>> = <<1, 2, 0>>

(***************************************************************************)
(* Properties of the whole program (Spec): the notification.               *)
(***************************************************************************)
\* C17: the notification is one slot.  Raising it when it is pending leaves
\* it pending; a wait of the watchdog takes it, clears it and restarts the
\* race once; with the slot empty the watchdog's wait cannot return on it,
\* and the slot is filled again only by a new message.  So the races
\* restarted never outnumber the messages, and notifications raised
\* together restart one race.
C17_SignalCoalesces ==
    /\ [](restarts <= Len(emitted))
    /\ [](~SIGNAL => ~ENABLED WdSignal)
    /\ [][/\ (SIGNAL /\ emitted' # emitted) => SIGNAL'
          /\ restarts' # restarts
               => /\ restarts' = restarts + 1
                  /\ SIGNAL /\ ~SIGNAL'
                  /\ timer' = TimeoutTicks
                  /\ pc_wd' = "select"
          /\ (~SIGNAL /\ SIGNAL') => Len(emitted') = Len(emitted) + 1]_vars

\* Two messages raised the notification before the watchdog ran: one race
\* restarted, the slot is empty and the watchdog has been waiting since.
C17_Witness ==
    /\ Len(emitted) = 2
    /\ restarts = 1
    /\ ~SIGNAL
    /\ ~tripped
    /\ Idle
    /\ pc_wd = "select"
    /\ timer = TimeoutTicks - 1
    /\ sinceAct = 1

(***************************************************************************)
(* Properties of the whole program (Spec): the override.                   *)
(***************************************************************************)
\* The call the override makes as its k-th: drive with the preset, then
\* neutral, and so on.
OvExpected(k) ==
    IF k % 2 = 1
        THEN [op |-> "drive", args |-> <<FULL_POWER, FRAC_PI_2, 0>>]
        ELSE [op |-> "neutral", args |-> <<>>]

\* The override waits for a level the button does not have.
OvWaiting == pc_ov \in {"wait_low", "wait_high"} /\ ~Ready("ov")

\* C18: the calls of the override alternate, drive with the preset first,
\* then neutral; each call answers a level change of its own (never more
\* calls than changes); a step adds one call at most; and while the override
\* waits its last call is the one for the level the button has: drive while
\* pressed, neutral (or none yet) while released.
C18_OverrideAlternates ==
    /\ [](\A k \in DOMAIN ovLog : ovLog[k] = OvExpected(k))
    /\ [](Len(ovLog) <= edges)
    /\ []((~halted /\ OvWaiting) => (button = "low" <=> Len(ovLog) % 2 = 1))
    /\ [][ovLog' # ovLog =>
            /\ Len(ovLog') = Len(ovLog) + 1
            /\ robot_m = "ov"
            /\ lastCall'.by = "ov"
            /\ lastCall'.op = Last(ovLog').op
            /\ lastCall'.args = Last(ovLog').args]_vars

\* Pressed then released with no command received: drive with the preset,
\* then neutral.
C18_Witness ==
    /\ ovLog = <<[op |-> "drive", args |-> <<FULL_POWER, FRAC_PI_2, 0>>],
                 [op |-> "neutral", args |-> <<>>]>>
    /\ edges = 2
    /\ button = "high"
    /\ pc_ov = "wait_low"
    /\ panic = "none"
    /\ sentLog = <<>>
    /\ lastCall.by = "ov"
    /\ lastCall.ok
    /\ robot = Neutral

(***************************************************************************)
(* Properties of MyMotor (SpecMotor).                                      *)
(***************************************************************************)
\* The first n of the sub-operations order.
FirstOf(order, n) == SubSeq(order, 1, n)

\* C19: drive(power, dir) goes through direction output 0, direction output
\* 1, duty cycle, in that order, and stops at the first that fails.  When
\* all succeed the outputs are (active, passive) for Clockwise and (passive,
\* active) for CounterClockwise, and the duty is power/255.  When one fails
\* the call returns Err, the outputs written before it keep their new
\* values and the outputs after it keep their old ones.  passive is the
\* opposite of active, and no call changes either.
C19_DriveOrder ==
    motorCall.op = "drive" =>
        LET b   == motorCall.before
            act == b.dir_active
            pas == b.dir_passive
            d0  == IF motorCall.dir = "Clockwise" THEN act ELSE pas
            d1  == IF motorCall.dir = "Clockwise" THEN pas ELSE act
            n   == Len(motorCall.trace)
        IN  /\ pas = Opposite(act)
            /\ motor.dir_active = act /\ motor.dir_passive = pas
            /\ n \in 1..3
            /\ motorCall.trace = FirstOf(<<"dir_0", "dir_1", "pwm">>, n)
            /\ motorCall.ok =>
                 /\ n = 3
                 /\ motor.dir_0 = d0 /\ motor.dir_1 = d1
                 /\ motor.pwm = [num |-> motorCall.power, denom |-> U8_MAX]
            /\ ~motorCall.ok =>
                 /\ motor.dir_0 = (IF n > 1 THEN d0 ELSE motor.dir_0)
                 /\ motor.dir_0 \in {b.dir_0, d0}
                 /\ motor.dir_1 = (IF n > 2 THEN d1 ELSE IF n < 2 THEN b.dir_1
                                   ELSE motor.dir_1)
                 /\ motor.dir_1 \in {b.dir_1, d1}
                 /\ n < 3 => motor.pwm = b.pwm

\* drive(255, CounterClockwise) failed at direction output 1: direction
\* output 0 has its new level and the duty is the old one.
C19_Witness ==
    /\ motorCall.op = "drive"
    /\ motorCall.power = U8_MAX
    /\ motorCall.dir = "CounterClockwise"
    /\ ~motorCall.ok
    /\ motorCall.trace = <<"dir_0", "dir_1">>
    /\ motor.dir_0 = motor.dir_passive
    /\ motor.dir_0 # motorCall.before.dir_0
    /\ motor.dir_1 = motorCall.before.dir_1
    /\ motor.pwm = motorCall.before.pwm

\* C20: neutral() goes through duty cycle off, direction output 0 to
\* passive, direction output 1 to passive, in that order, and stops at the
\* first that fails.  When all succeed the duty is zero and both direction
\* outputs are passive.  Whatever fails, a direction output this call has
\* changed implies a duty of zero.
C20_NeutralOrder ==
    motorCall.op = "neutral" =>
        LET b == motorCall.before
            n == Len(motorCall.trace)
        IN  /\ n \in 1..3
            /\ motorCall.trace = FirstOf(<<"pwm", "dir_0", "dir_1">>, n)
            /\ motorCall.ok =>
                 /\ n = 3
                 /\ ZeroDuty(motor.pwm)
                 /\ motor.dir_0 = b.dir_passive /\ motor.dir_1 = b.dir_passive
            /\ (motor.dir_0 # b.dir_0 \/ motor.dir_1 # b.dir_1) => ZeroDuty(motor.pwm)
            /\ n > 1 => ZeroDuty(motor.pwm)
            /\ n = 1 => (motor.dir_0 = b.dir_0 /\ motor.dir_1 = b.dir_1)
            /\ n = 2 => motor.dir_1 = b.dir_1

\* neutral() on a running motor failed at direction output 1: the duty is
\* zero and direction output 0 is passive.
C20_Witness ==
    /\ motorCall.op = "neutral"
    /\ ~motorCall.ok
    /\ motorCall.trace = <<"pwm", "dir_0", "dir_1">>
    /\ ~ZeroDuty(motorCall.before.pwm)
    /\ ZeroDuty(motor.pwm)
    /\ motor.dir_0 = motor.dir_passive
    /\ motor.dir_0 # motorCall.before.dir_0
    /\ motor.dir_1 # motor.dir_passive

====
